---- MODULE Spec2Model ----
(***************************************************************************)
(* Conversation state machine and request-fulfilment pipeline of the       *)
(* WhatsApp auto-parts bot (src/app.py, src/agent/approval.py,             *)
(* src/agent/parser.py, src/agent/recommender.py, src/utils/followup.py).  *)
(*                                                                         *)
(* A text message is a sequence of lower-case words.  Python dicts are     *)
(* functions whose DOMAIN is the key set; pending_approvals, whose         *)
(* insertion order the code reads, is a sequence of entries.               *)
(***************************************************************************)
EXTENDS Integers, Sequences, FiniteSets, TLC

\* ------------------------------------------------------------------ bounds

\* Longest request queue a conversation is driven to.
MaxQueue == 2
\* Message ids the transport hands out for messages whose id the code stores.
MaxSid == 2
\* Sourcing runs one customer starts over a behaviour.
MaxRuns == 1
\* Clock ticks (each longer than the conversation TTL).
MaxTicks == 1
\* process_customer_request threads of one customer started and not yet run.
MaxThreads == 1
\* Supplier results handed to one build_options call.
MaxResults == 4
\* process_customer_request threads of one customer that are followed
\* statement by statement.
MaxRaceThreads == 2
\* threading.Timer objects created for one customer.
MaxTimers == 3

\* --------------------------------------------------------- program constants

CONVERSATION_TTL == 10800
DEFAULT_MARKUP_PCT == 35

\* ------------------------------------------------------------------- values

Customers == {"c1", "c2"}
Fields == <<"part", "make", "model", "year">>
FieldSet == {"part", "make", "model", "year"}
None == "None"

Item(p, ma, mo, y) == [part |-> p, make |-> ma, model |-> mo, year |-> y]
NoUpdate == Item("", "", "", "")

\* ------------------------------------------------------------ dict helpers

DictPut(d, k, v) == [x \in DOMAIN d \cup {k} |-> IF x = k THEN v ELSE d[x]]
DictPop(d, k) == [x \in DOMAIN d \ {k} |-> d[x]]

RECURSIVE SeqFilterOut(_, _)
\* The entries of an ordered dict without key k.
SeqFilterOut(s, k) ==
    IF s = <<>> THEN <<>>
    ELSE IF Head(s).customer_number = k THEN SeqFilterOut(Tail(s), k)
    ELSE <<Head(s)>> \o SeqFilterOut(Tail(s), k)

OKeys(s) == {s[i].customer_number : i \in 1..Len(s)}
OGet(s, k) == s[CHOOSE i \in 1..Len(s) : s[i].customer_number = k]
\* d[k] = v on an insertion-ordered dict: an existing key keeps its place.
OPut(s, k, v) ==
    IF k \in OKeys(s)
    THEN [i \in 1..Len(s) |-> IF s[i].customer_number = k THEN v ELSE s[i]]
    ELSE Append(s, v)

\* -------------------------------------------------------------------- text
\* Phrase tables of src/app.py and src/agent/parser.py, one word sequence per
\* phrase (accented spellings are written without the accent).

GOODBYE_PHRASES ==
    { <<"gracias">>, <<"muchas", "gracias">>, <<"mil", "gracias">>,
      <<"ok", "gracias">>, <<"okey", "gracias">>, <<"gracias!">>, <<"gracias!!">>,
      <<"ty">>, <<"thanks">>, <<"thank", "you">>, <<"hasta", "luego">>,
      <<"hasta", "pronto">>, <<"bye">>, <<"chao">>, <<"chau">>, <<"adios">>,
      <<"nos", "vemos">>, <<"cuidate">>, <<"que", "te", "vaya", "bien">>,
      <<"ya", "no", "necesito">>, <<"no", "gracias">>, <<"dejalo">>, <<"olvidalo">> }

WAIT_PHRASES ==
    { <<"dame", "un", "segundo">>, <<"un", "momento">>, <<"un", "seg">>, <<"espera">>,
      <<"esperate">>, <<"ahorita", "te", "digo">>, <<"ahorita">>, <<"dejame", "revisar">>,
      <<"dejame", "ver">>, <<"ya", "vuelvo">>, <<"un", "momentito">> }

HUMAN_REQUEST ==
    { <<"con", "alguien">>, <<"hablar", "con">>, <<"un", "agente">>, <<"una", "persona">>,
      <<"con", "una", "persona">>, <<"con", "un", "humano">>, <<"con", "el", "dueno">>,
      <<"con", "el", "encargado">>, <<"me", "pueden", "llamar">>,
      <<"me", "pueden", "contactar">>, <<"quiero", "hablar">>, <<"necesito", "hablar">>,
      <<"llamenme">>, <<"me", "llaman">>, <<"por", "favor", "alguien">>,
      <<"alguien", "me", "ayude">>, <<"alguien", "que", "trabaje">> }

GREETINGS ==
    { <<"hola">>, <<"buenas">>, <<"buenos", "dias">>, <<"buenas", "tardes">>,
      <<"buenas", "noches">>, <<"hi">>, <<"hello">>, <<"hey">> }

SECONDARY_GREETINGS ==
    { <<"que", "tal">>, <<"como", "estas">>, <<"todo", "bien">>, <<"que", "hay">> }

ACK_PHRASES ==
    { <<"ok">>, <<"okey">>, <<"okay">>, <<"entendido">>, <<"perfecto">>, <<"listo">>,
      <<"bueno">>, <<"ah", "ok">>, <<"ah", "okey">>, <<"ya", "veo">>, <<"ya">>, <<"claro">>,
      <<"dale">>, <<"va">>, <<"de", "acuerdo">>, <<"10", "puntos">>, <<"excelente">>,
      <<"genial">> }

VAGUE_INTENT ==
    { <<"si", "necesito">>, <<"necesito", "unas">>, <<"necesito", "algo">>,
      <<"busco", "unas">>, <<"quiero", "unas">>, <<"quiero", "una">>, <<"quiero", "un">>,
      <<"tengo", "que", "buscar">>, <<"necesito", "piezas">>, <<"necesito", "repuestos">>,
      <<"necesito", "varios">>, <<"si", "tengo">>, <<"tengo", "varios">>,
      <<"tengo", "unas">>, <<"no", "entiendo">>, <<"no", "se", "como">>, <<"si">> }

PART_KEYWORDS ==
    { <<"pieza">>, <<"repuesto">>, <<"parte">>, <<"necesito">>, <<"neceisto">>,
      <<"nececito">>, <<"busco">>, <<"quiero">>, <<"tienen">>, <<"tienes">>, <<"hay">>,
      <<"consiguen">> }

\* The exact matches of _is_affirmative.
AFFIRMATIVE_EXACT ==
    { <<"si">>, <<"dale">>, <<"ok">>, <<"okey">>, <<"correcto">>, <<"listo">>, <<"yes">>,
      <<"sip">>, <<"claro">>, <<"bueno">>, <<"va">>, <<"exacto">>, <<"eso">>, <<"ese">>,
      <<"perfecto">>, <<"excelente">>, <<"genial">> }

\* The first words after which _is_affirmative accepts any trailing words.
AFFIRMATIVE_PREFIX ==
    { "si", "dale", "ok", "okey", "claro", "correcto", "sip", "listo" }

\* The answers that accept a live-session offer (src/app.py, step 4).
LIVE_OFFER_YES ==
    { <<"si">>, <<"yes">>, <<"dale">>, <<"ok">>, <<"okey">>, <<"sip">>, <<"claro">>,
      <<"bueno">>, <<"va">> }

\* _AFFIRMATIONS of src/agent/parser.py.
AFFIRMATIONS ==
    { <<"si">>, <<"dale">>, <<"ok">>, <<"okey">>, <<"ese">>, <<"ese", "mismo">>,
      <<"ese", "esta", "bien">>, <<"ese", "me", "sirve">>, <<"ese", "jale">>,
      <<"ese", "ta", "bien">>, <<"ese", "pues">>, <<"bueno">>, <<"perfecto">>,
      <<"listo">>, <<"claro">>, <<"va">>, <<"yes">>, <<"sip">>, <<"eso">>,
      <<"correcto">>, <<"excelente">>, <<"genial">> }

\* p is a prefix of t, word by word.  (str.startswith compares characters; on
\* the messages below the two agree.)
StartsWith(t, p) == Len(p) <= Len(t) /\ SubSeq(t, 1, Len(p)) = p
\* p occurs in t (Python's  p in t  on whole words).
Contains(t, p) ==
    \E i \in 1..(Len(t) - Len(p) + 1) : SubSeq(t, i, i + Len(p) - 1) = p

\* str.rstrip("!") and str.rstrip("i") on one word.
RstripBang(w) ==
    CASE w = "gracias!" -> "gracias"
      [] w = "gracias!!" -> "gracias"
      [] w = "si!" -> "si"
      [] w = "listo!" -> "listo"
      [] OTHER -> w
RstripI(w) ==
    CASE w \in {"si", "sii", "siii", "s"} -> "s"
      [] w = "sip" -> "sip"
      [] OTHER -> w
\* The message with rstrip applied to its last word.
WithLast(t, w) == IF t = <<>> THEN t ELSE [t EXCEPT ![Len(t)] = w]

is_goodbye(message) == message \in GOODBYE_PHRASES
is_wait(message) == \E w \in WAIT_PHRASES : StartsWith(message, w)
is_human_request(message) == \E p \in HUMAN_REQUEST : Contains(message, p)
is_greeting(message) == \E g \in GREETINGS : StartsWith(message, g)
is_secondary_greeting(message) == \E g \in SECONDARY_GREETINGS : StartsWith(message, g)
is_ack(message) == message \in ACK_PHRASES
is_vague_intent(message) ==
    \/ \E v \in VAGUE_INTENT : StartsWith(message, v)
    \/ \E k \in PART_KEYWORDS : Contains(message, k)

_is_affirmative(message) ==
    LET msg == IF message = <<>> THEN message ELSE WithLast(message, RstripBang(message[Len(message)]))
        base == IF msg = <<>> THEN msg ELSE WithLast(msg, RstripI(msg[Len(msg)]))
    IN \/ msg \in AFFIRMATIVE_EXACT
       \/ base \in {<<"s">>, <<"si">>}
       \/ (Len(msg) > 1 /\ msg[1] \in AFFIRMATIVE_PREFIX)

\* ----------------------------------------------------------- queue helpers

ConversationState == [ACTIVE |-> "active", WAITING |-> "waiting", COMPLETED |-> "completed"]

_new_conversation(t) ==
    [state |-> ConversationState.ACTIVE, request_queue |-> <<>>,
     confirming |-> FALSE, last_seen |-> t]

\* A weaker completeness test, which looks at the part only.
_req_complete_part_only(req) == req.part # ""

_req_complete(req) == \A f \in FieldSet : req[f] # ""

_queue_all_complete(queue) ==
    queue # <<>> /\ \A i \in 1..Len(queue) : _req_complete(queue[i])

\* str(v).strip() on the values an update may carry: a value of blanks only
\* strips to the empty string, a padded value loses its padding.
BLANK == " "
PADDED == " nuevo "
Strip(v) == CASE v = BLANK -> "" [] v = PADDED -> "nuevo" [] OTHER -> v

\* The test under which _apply_to_queue assigns item[k]:
\*   not _req_complete(item), and v and not item.get(k)
Assigns(item, update, k) ==
    ~_req_complete(item) /\ update[k] # "" /\ item[k] = ""

\* A merge that lacks the test "not item.get(k)".
_apply_to_queue_overwrite(queue, update) ==
    [i \in 1..Len(queue) |->
        [k \in FieldSet |->
            IF ~_req_complete(queue[i]) /\ update[k] # ""
            THEN Strip(update[k]) ELSE queue[i][k]]]

\* Field updates go to every incomplete item; a field already set is kept.
_apply_to_queue(queue, update) ==
    [i \in 1..Len(queue) |->
        [k \in FieldSet |->
            IF Assigns(queue[i], update, k) THEN Strip(update[k]) ELSE queue[i][k]]]

FirstIncomplete(queue) ==
    IF \E i \in 1..Len(queue) : ~_req_complete(queue[i])
    THEN CHOOSE i \in 1..Len(queue) :
            /\ ~_req_complete(queue[i])
            /\ \A j \in 1..(i - 1) : _req_complete(queue[j])
    ELSE 0

\* Known fields of the first incomplete item ("" for a field not known).
_known_from_queue(queue) ==
    IF FirstIncomplete(queue) = 0 THEN NoUpdate ELSE queue[FirstIncomplete(queue)]

\* Missing fields of the first incomplete item, in the order part, make, model, year.
_missing_from_queue(queue) ==
    IF FirstIncomplete(queue) = 0 THEN <<>>
    ELSE SelectSeq(Fields, LAMBDA f : queue[FirstIncomplete(queue)][f] = "")

_enqueue_requests(conv, new_requests, t) ==
    [conv EXCEPT !.request_queue = @ \o new_requests, !.last_seen = t]

\* ------------------------------------------------------------ collaborators
\* The messages customers send, and for each the answers the language-model
\* collaborators can give to it.  Every collaborator can fail, which the code
\* turns into "nothing extracted".

T_GRACIAS == <<"gracias">>
T_BYE_LONG == <<"que", "te", "vaya", "bien">>
T_SI == <<"si">>
T_DALE_PUES == <<"dale", "pues">>
T_UNO == <<"1">>
T_DOS == <<"2">>
T_REQ == <<"necesito", "alternador", "hilux", "2008">>
T_TWO == <<"alternador", "y", "filtro", "hilux", "2008">>
T_PART == <<"necesito", "pastillas">>
T_VEH == <<"toyota", "hilux", "2008">>
T_ESPERA == <<"espera">>
T_HUMANO == <<"quiero", "hablar", "con", "alguien">>
T_CORR == <<"no", "es", "2010">>
T_FRUSTRADO == <<"esto", "no", "sirve">>

Texts ==
    { T_GRACIAS, T_SI, T_DALE_PUES, T_UNO, T_DOS, T_REQ, T_TWO, T_PART, T_VEH,
      T_ESPERA, T_HUMANO, T_CORR, T_FRUSTRADO }

\* Captions of the images customers send ("" : no caption).
Captions == { <<>>, T_REQ, T_BYE_LONG }

ITEM_ALT == Item("alternador", "toyota", "hilux", "2008")
ITEM_FIL == Item("filtro", "toyota", "hilux", "2008")
ITEM_PAS == Item("pastillas", "", "", "")

parse_request_multi(message) ==
    CASE message = T_REQ -> { <<ITEM_ALT>>, <<>> }
      [] message = T_TWO -> { <<ITEM_ALT, ITEM_FIL>>, <<>> }
      [] message = T_PART -> { <<ITEM_PAS>>, <<>> }
      [] OTHER -> { <<>> }

\* Only fields missing from known are returned.
extract_partial(message, known) ==
    LET told == CASE message = T_VEH -> Item("", "toyota", "hilux", "2008")
                  [] OTHER -> NoUpdate
        fresh == [f \in FieldSet |-> IF known[f] = "" THEN told[f] ELSE ""]
    IN  IF \A f \in FieldSet : known[f] # "" THEN { NoUpdate } ELSE { fresh, NoUpdate }

parse_correction(message, current) ==
    CASE message = T_CORR -> { Item("", "", "", "2010"), NoUpdate }
      [] OTHER -> { NoUpdate }

detect_needs_human(message) ==
    CASE message = T_FRUSTRADO -> { TRUE, FALSE }
      [] OTHER -> { FALSE }

\* -------------------------------------------------------------- recommender
\* A supplier result: costs in cents, 0 for a cost that is missing; lead_time
\* with the digit runs re.findall(r'\d+') finds in it.

LeadTime(text, numbers) == [text |-> text, numbers |-> numbers]
R_USA ==
    [supplier_name |-> "USA (via Miami forwarder)", total_cost |-> 12500, price |-> 10000,
     lead_time |-> LeadTime("5-7 dias", <<5, 7>>), source |-> "usa_supplier"]
R_SHEET ==
    [supplier_name |-> "Proveedor Local", total_cost |-> 0, price |-> 14000,
     lead_time |-> LeadTime("1-2 dias", <<1, 2>>), source |-> "google_sheet"]

\* A second row of the same local supplier, cheaper and slower.
R_SHEET_2 ==
    [supplier_name |-> "Proveedor Local", total_cost |-> 0, price |-> 8999,
     lead_time |-> LeadTime("3 dias", <<3>>), source |-> "google_sheet"]
\* A row without a price and without a number in its lead time.
R_NOCOST ==
    [supplier_name |-> "Repuestos Sur", total_cost |-> 0, price |-> 0,
     lead_time |-> LeadTime("consultar", <<>>), source |-> "google_sheet"]
\* A result that costs more than 999.
R_BIG ==
    [supplier_name |-> "MercadoLibre", total_cost |-> 120000, price |-> 120000,
     lead_time |-> LeadTime("2 dias", <<2>>), source |-> "mercadolibre"]

\* x.get("total_cost") or x.get("price") or d
CostOr(x, d) == IF x.total_cost # 0 THEN x.total_cost ELSE IF x.price # 0 THEN x.price ELSE d

\* A price cut off after the second decimal.
calculate_price_truncated(cost) == (cost * (100 + DEFAULT_MARKUP_PCT)) \div 100

calculate_price(cost) == (cost * (100 + DEFAULT_MARKUP_PCT) + 50) \div 100
calculate_margin(cost, price) == price - cost
parse_lead_days(lead_time) == IF lead_time.numbers # <<>> THEN lead_time.numbers[1] ELSE 99

\* A filter that lets every result through.
Dedup_none(results, seen) == results

RECURSIVE Dedup(_, _)
Dedup(results, seen) ==
    IF results = <<>> THEN <<>>
    ELSE IF Head(results).supplier_name \in seen THEN Dedup(Tail(results), seen)
    ELSE <<Head(results)>> \o Dedup(Tail(results), seen \cup {Head(results).supplier_name})

RECURSIVE InsertSorted(_, _)
\* x placed after every element whose key is <= its own (sorted() is stable).
InsertSorted(sorted, x) ==
    IF sorted = <<>> THEN <<x>>
    ELSE IF Head(sorted).k <= x.k
         THEN <<Head(sorted)>> \o InsertSorted(Tail(sorted), x)
         ELSE <<x>> \o sorted

RECURSIVE SortKeyed(_)
SortKeyed(xs) ==
    IF xs = <<>> THEN <<>>
    ELSE InsertSorted(SortKeyed(SubSeq(xs, 1, Len(xs) - 1)), xs[Len(xs)])

\* sorted(xs, key=...) for a sequence of [k |-> key, v |-> element]
SortedBy(keyed) == [i \in 1..Len(keyed) |-> SortKeyed(keyed)[i].v]

Candidate(label, r) ==
    LET cost == CostOr(r, 0) IN
    [label |-> label, supplier_name |-> r.supplier_name, cost |-> cost,
     suggested_price |-> calculate_price(cost),
     margin |-> calculate_margin(cost, calculate_price(cost)),
     lead_time |-> r.lead_time, source |-> r.source]

build_options(results) ==
    IF results = <<>> THEN <<>>
    ELSE
    LET unique_results == Dedup(results, {})
        by_cost == SortedBy([i \in 1..Len(unique_results) |->
                        [k |-> CostOr(unique_results[i], 99900), v |-> unique_results[i]]])
        by_speed == SortedBy([i \in 1..Len(unique_results) |->
                        [k |-> parse_lead_days(unique_results[i].lead_time),
                         v |-> unique_results[i]]])
        cheapest == by_cost[1]
        c1 == <<Candidate("cheapest", cheapest)>>
        c2 == IF by_speed[1].supplier_name # cheapest.supplier_name
              THEN Append(c1, Candidate("fastest", by_speed[1])) ELSE c1
        seen == {c2[i].supplier_name : i \in 1..Len(c2)}
        rest == SelectSeq(by_cost, LAMBDA r : r.supplier_name \notin seen)
    IN  IF rest # <<>> THEN Append(c2, Candidate("alternative", rest[1])) ELSE c2

\* The last step of source_parts on the results it collected:
\*   results.sort(key=lambda x: x.get("total_cost") or x.get("price") or 999)
source_parts(collected) ==
    SortedBy([i \in 1..Len(collected) |->
                [k |-> CostOr(collected[i], 99900), v |-> collected[i]]])

\* source_parts for one item: what the supplier fan-out can return (sorted by
\* cost), or an exception escaping it; a TimeoutError that escapes is the
\* exception the caller's "except FutureTimeoutError" catches.
SourceOutcomes ==
    { [raised |-> "no", results |-> <<>>],
      [raised |-> "no", results |-> <<R_USA>>],
      [raised |-> "no", results |-> <<R_USA, R_SHEET>>],
      [raised |-> "error", results |-> <<>>],
      [raised |-> "timeout", results |-> <<>>] }

\* --------------------------------------------------------------------- state

VARIABLES
    conversations,          \* number -> Conversation
    pending_approvals,      \* insertion-ordered: number -> PendingApproval
    pending_selections,     \* number -> PendingSelection
    approval_message_map,   \* approval message text -> number
    escalation_message_map, \* message id -> number
    live_sessions,          \* numbers in a live session
    pending_live_offers,    \* numbers offered a live session
    _timers,                \* numbers with a follow-up timer scheduled
    _long_timers,           \* number -> request_info of its long-wait timer
    threads,                \* process_customer_request calls started, not yet run
    runs,                   \* _run_multi_sourcing threads in flight, by run id
    owner_inbox,            \* approval requests delivered to the owner
    next_sid,               \* next message id of the transport
    n_runs,                 \* number -> sourcing runs started so far
    now,                    \* time.time()
    env,                    \* what the customers and the owner write in this behaviour
    ev                      \* the last step: operation, inputs, messages sent

vars ==
    << conversations, pending_approvals, pending_selections, approval_message_map,
       escalation_message_map, live_sessions, pending_live_offers, _timers, _long_timers,
       threads, runs, owner_inbox, next_sid, n_runs, now, env, ev >>

OWNER == "owner"
MONITOR == "monitor"
LOG == "log"

\* The program state a handler works on, with the messages it has sent so far
\* (out) and whether it stayed within the bounds of the model (ok).
Store ==
    [ conversations |-> conversations, pending_approvals |-> pending_approvals,
      pending_selections |-> pending_selections,
      approval_message_map |-> approval_message_map,
      escalation_message_map |-> escalation_message_map,
      live_sessions |-> live_sessions, pending_live_offers |-> pending_live_offers,
      timers |-> _timers, long_timers |-> _long_timers, threads |-> threads,
      runs |-> runs, owner_inbox |-> owner_inbox, next_sid |-> next_sid,
      n_runs |-> n_runs, now |-> now, out |-> <<>>, ok |-> TRUE ]

\* The state after a handler, and the record of the step.
Commit(st, op, number, text, info) ==
    /\ st.ok
    /\ conversations' = st.conversations
    /\ pending_approvals' = st.pending_approvals
    /\ pending_selections' = st.pending_selections
    /\ approval_message_map' = st.approval_message_map
    /\ escalation_message_map' = st.escalation_message_map
    /\ live_sessions' = st.live_sessions
    /\ pending_live_offers' = st.pending_live_offers
    /\ _timers' = st.timers
    /\ _long_timers' = st.long_timers
    /\ threads' = st.threads
    /\ runs' = st.runs
    /\ owner_inbox' = st.owner_inbox
    /\ next_sid' = st.next_sid
    /\ n_runs' = st.n_runs
    /\ now' = st.now
    /\ env' = env
    /\ ev' = [op |-> op, number |-> number, text |-> text, out |-> st.out, info |-> info]

Msg(to, kind, about) == [to |-> to, kind |-> kind, about |-> about]

\* send_whatsapp where the caller ignores the returned message id.
send_whatsapp(st, to, kind, about) ==
    [st EXCEPT !.out = Append(@, Msg(to, kind, about))]

\* A message id of the transport.
Wamid(n) == [wamid |-> n]

\* send_whatsapp to the owner on behalf of number, followed by
\*   if msg_sid: escalation_message_map[msg_sid] = number
\* The transport fails (msg_sid = None) once its MaxSid ids are used up.
send_and_map(st, kind, number) ==
    IF st.next_sid <= MaxSid
    THEN [st EXCEPT !.out = Append(@, Msg(OWNER, kind, number)),
                    !.escalation_message_map = DictPut(@, Wamid(st.next_sid), number),
                    !.next_sid = @ + 1]
    ELSE [st EXCEPT !.out = Append(@, Msg(OWNER, "send_failed", number))]

\* ---------------------------------------------------------------- followup

\* del _timers[customer_number] in place of pop(customer_number, None): the
\* KeyError of a missing timer ends the request and is reported.
cancel_followup_del(st, customer_number) ==
    IF customer_number \in st.timers
    THEN [st EXCEPT !.timers = @ \ {customer_number}]
    ELSE send_whatsapp(st, MONITOR, "webhook_error_KeyError", "")

\* A cancel that stops the reminders of every customer.
cancel_followup_all(st, customer_number) == [st EXCEPT !.timers = {}]

cancel_followup(st, customer_number) ==
    [st EXCEPT !.timers = @ \ {customer_number}]
schedule_followup(st, customer_number) ==
    [cancel_followup(st, customer_number) EXCEPT !.timers = @ \cup {customer_number}]
\* A cancellation that leaves the long-wait table as it is.
cancel_long_wait_alert_noop(st, customer_number) == st

cancel_long_wait_alert(st, customer_number) ==
    [st EXCEPT !.long_timers = DictPop(@, customer_number)]
schedule_long_wait_alert(st, customer_number, request_info) ==
    [cancel_long_wait_alert(st, customer_number) EXCEPT
        !.long_timers = DictPut(@, customer_number, request_info)]

\* ---------------------------------------------------- conversation manager

_get_or_create_conversation(st, number) ==
    IF \/ number \notin DOMAIN st.conversations
       \/ st.conversations[number].state = ConversationState.COMPLETED
    THEN [st EXCEPT !.conversations = DictPut(@, number, _new_conversation(st.now))]
    ELSE st

_close_conversation(st, number, mid_flow) ==
    send_whatsapp(
        cancel_followup([st EXCEPT !.conversations = DictPop(@, number)], number),
        number, IF mid_flow THEN "GOODBYE_MID_FLOW" ELSE "GOODBYE_COMPLETED", "")

_handle_human_escalation(st, number) ==
    LET s1 == [st EXCEPT !.conversations = DictPop(@, number),
                         !.live_sessions = @ \cup {number}]
        s2 == cancel_followup(s1, number)
        s3 == send_and_map(s2, "human_escalation", number)
    IN  send_whatsapp(s3, number, "human_request", "")

\* Asks for the first missing field of the first incomplete item; nothing is
\* sent when no item is incomplete.
_send_queue_missing_prompt(st, number, queue) ==
    IF _missing_from_queue(queue) = <<>> THEN st
    ELSE send_whatsapp(st, number, "missing_fields", _missing_from_queue(queue)[1])

\* The end of process_customer_request: confirm a complete queue, or prompt.
CheckQueueComplete(st, number) ==
    LET conv == st.conversations[number] IN
    IF _queue_all_complete(conv.request_queue)
    THEN send_whatsapp(
            [st EXCEPT !.conversations[number].confirming = TRUE,
                       !.conversations[number].last_seen = st.now],
            number, "queue_confirmation", "")
    ELSE _send_queue_missing_prompt(st, number, conv.request_queue)

\* The reply to a message that carries no request, with an empty queue.
Conversational(st, number, message, needs_human) ==
    IF is_human_request(message) THEN _handle_human_escalation(st, number)
    ELSE IF is_greeting(message) THEN send_whatsapp(st, number, "greeting", "")
    ELSE IF is_secondary_greeting(message)
         THEN send_whatsapp(st, number, "secondary_greeting", "")
    ELSE IF is_wait(message) THEN send_whatsapp(st, number, "wait_acknowledgment", "")
    ELSE IF is_ack(message) THEN send_whatsapp(st, number, "ack", "")
    ELSE IF is_vague_intent(message) THEN send_whatsapp(st, number, "vague_intent", "")
    ELSE IF needs_human
         THEN send_whatsapp([st EXCEPT !.pending_live_offers = @ \cup {number}],
                            number, "human_request", "")
    ELSE send_whatsapp(st, number, "unknown", "")

\* new_requests, partial and needs_human are the collaborators' answers.
process_customer_request(st, number, message, new_requests, partial, needs_human) ==
    LET st0 == _get_or_create_conversation(st, number)
        conv == st0.conversations[number]
        queue == conv.request_queue
    IN
    IF is_goodbye(message) THEN _close_conversation(st0, number, queue # <<>>)
    ELSE IF new_requests # <<>>
    THEN CheckQueueComplete(
            [st0 EXCEPT !.conversations[number] =
                            _enqueue_requests(conv, new_requests, st.now)],
            number)
    ELSE IF queue # <<>>
    THEN IF partial # NoUpdate
         THEN CheckQueueComplete(
                [st0 EXCEPT !.conversations[number].request_queue =
                                _apply_to_queue(queue, partial),
                            !.conversations[number].last_seen = st.now],
                number)
         ELSE IF is_wait(message)
              THEN send_whatsapp(st0, number, "wait_acknowledgment", "")
              ELSE _send_queue_missing_prompt(st0, number, queue)
    ELSE Conversational(st0, number, message, needs_human)

\* ------------------------------------------------------------------ approval

\* The text of an approval request (format_approval_message): it names the
\* customer, the request and every option.
format_approval_message(options, parsed, customer_number) ==
    [customer |-> customer_number, parsed |-> parsed, options |-> options]

\* The transport's id of an approval request delivered to the owner.
ApprovalWamid(body) == [approval_wamid |-> body]

send_for_approval(st, options, parsed, customer_number) ==
    LET approval_message == format_approval_message(options, parsed, customer_number)
        entry == [customer_number |-> customer_number, parsed |-> parsed,
                  options |-> options, status |-> "awaiting_approval"]
    IN  [st EXCEPT
            !.pending_approvals = OPut(@, customer_number, entry),
            !.approval_message_map = DictPut(@, approval_message, customer_number),
            !.owner_inbox = @ \cup {approval_message},
            !.out = Append(@, Msg(OWNER, "approval_request", parsed))]

\* What the owner writes.  prices are the comma-separated pieces of the
\* message, in cents; a piece that float() rejects makes the list invalid.
O_CANCELAR == [body |-> "cancelar", prices |-> <<>>, number |-> ""]
O_FIN == [body |-> "fin", prices |-> <<>>, number |-> ""]
O_TEXT == [body |-> "text", prices |-> <<>>, number |-> ""]
O_TOMAR(c) == [body |-> "tomar", prices |-> <<>>, number |-> c]
O_PRICES1 == [body |-> "prices", prices |-> <<16900>>, number |-> ""]
O_PRICES2 == [body |-> "prices", prices |-> <<16900, 18900>>, number |-> ""]
OwnerMessages ==
    { O_CANCELAR, O_FIN, O_TEXT, O_TOMAR("c1"), O_TOMAR("c2"), O_PRICES1, O_PRICES2 }

\* A message that is not a reply carries no context id.
NoReply == [wamid |-> 0]

\* approval_message_map.get(replied_to)
LookupApproval(map, replied_to) ==
    IF replied_to \in DOMAIN map THEN map[replied_to] ELSE None

\* The first pending approval, in insertion order, with as many options as
\* there are prices.
MatchByCount(pending, final_prices) ==
    LET hits == SelectSeq(pending,
                    LAMBDA p : /\ p.status = "awaiting_approval"
                               /\ Len(final_prices) = Len(p.options))
    IN  IF hits = <<>> THEN None ELSE hits[1].customer_number

\* The customer an owner's price list is attributed to, or None.
MatchApproval(st, final_prices, replied_to) ==
    LET by_reply == IF replied_to # NoReply /\ DOMAIN st.approval_message_map # {}
                    THEN LookupApproval(st.approval_message_map, replied_to)
                    ELSE None
        by_count == IF by_reply # None THEN by_reply
                    ELSE MatchByCount(st.pending_approvals, final_prices)
    IN  IF by_count # None THEN by_count
        ELSE IF Len(st.pending_approvals) = 1
             THEN st.pending_approvals[1].customer_number
             ELSE None

\* A handler that answers with the corrective text and forgets what is pending.
handle_approval_forgetful(st, message, replied_to) ==
    send_whatsapp([st EXCEPT !.pending_approvals = <<>>, !.long_timers = <<>>],
                  OWNER, "prices_not_understood", "")

\* The result text goes to the owner (src/app.py, "Normal approval handling").
handle_approval(st, message, replied_to) ==
    IF message.body = "cancelar"
    THEN IF st.pending_approvals # <<>>
         THEN LET customer_number ==
                      st.pending_approvals[Len(st.pending_approvals)].customer_number
                  s1 == [st EXCEPT !.pending_approvals = SeqFilterOut(@, customer_number)]
              IN  send_whatsapp(send_whatsapp(s1, customer_number, "unavailable", ""),
                                OWNER, "order_cancelled", customer_number)
         ELSE send_whatsapp(st, OWNER, "no_pending_orders", "")
    ELSE IF message.body # "prices"
    THEN send_whatsapp(st, OWNER, "prices_not_understood", "")
    ELSE
    LET final_prices == message.prices
        by_reply == IF replied_to # NoReply /\ DOMAIN st.approval_message_map # {}
                    THEN LookupApproval(st.approval_message_map, replied_to)
                    ELSE None
        s0 == IF by_reply # None
              THEN [st EXCEPT !.approval_message_map = DictPop(@, replied_to)]
              ELSE st
        matched_customer == MatchApproval(st, final_prices, replied_to)
    IN
    IF matched_customer = None
    THEN send_whatsapp(s0, OWNER, "no_matching_order", Len(st.pending_approvals))
    ELSE IF matched_customer \notin OKeys(st.pending_approvals)
    THEN \* pending_approvals.pop raises KeyError
         send_whatsapp(s0, MONITOR, "webhook_error_KeyError", "")
    ELSE
    LET pending == OGet(st.pending_approvals, matched_customer)
        customer_number == pending.customer_number
        s1 == [s0 EXCEPT
                !.pending_approvals = SeqFilterOut(@, matched_customer),
                !.pending_selections =
                    DictPut(@, customer_number,
                            [options |-> pending.options, parsed |-> pending.parsed,
                             final_prices |-> final_prices])]
        s2 == cancel_long_wait_alert(cancel_followup(s1, customer_number), customer_number)
        s3 == send_whatsapp(s2, customer_number, "quote", final_prices)
    IN  send_whatsapp(s3, OWNER, "quote_sent", customer_number)

\* ------------------------------------------------------------ option choice

NoChoice == 0 - 1

\* The language model's reading of a free-text choice (0-based), or NoChoice.
InterpretLLM(message, options) ==
    IF message = T_SI /\ Len(options) > 1 THEN { NoChoice, 0 } ELSE { NoChoice }

\* A numeric fast path that lacks the test "idx < len(options)".
interpret_option_choice_unbounded(message, options, llm) ==
    IF message \in { <<"1">>, <<"2">>, <<"3">> }
    THEN (CASE message = <<"1">> -> 1 [] message = <<"2">> -> 2 [] OTHER -> 3) - 1
    ELSE llm

interpret_option_choice(message, options, llm) ==
    IF message \in { <<"1">>, <<"2">>, <<"3">> }
    THEN LET idx == (CASE message = <<"1">> -> 1 [] message = <<"2">> -> 2
                       [] OTHER -> 3) - 1
         IN  IF idx < Len(options) THEN idx ELSE NoChoice
    ELSE IF /\ Len(options) = 1
            /\ \/ message \in AFFIRMATIONS
               \/ \E a \in AFFIRMATIONS : StartsWith(message, a) /\ Len(message) > Len(a)
    THEN 0
    ELSE llm

\* ------------------------------------------------------------------ webhook

StartThread(st, number, message) ==
    [st EXCEPT !.threads = @ \cup {[number |-> number, message |-> message]},
               !.ok = /\ @
                      /\ [number |-> number, message |-> message] \notin st.threads
                      /\ Cardinality({t \in st.threads : t.number = number}) < MaxThreads]

\* A sourcing thread that is handed the queue back to front.
NewRun_reversed(number, queue) ==
    [number |-> number, queue |-> [i \in 1..Len(queue) |-> queue[Len(queue) + 1 - i]],
     pc |-> "start", done |-> <<>>, late |-> {}]

NewRun(number, queue) ==
    [number |-> number, queue |-> queue, pc |-> "start", done |-> <<>>, late |-> {}]

\* Step 4: the customer answers a live-session offer.
LiveOfferAnswer(st, number, message) ==
    LET s1 == [st EXCEPT !.pending_live_offers = @ \ {number}] IN
    IF message \in LIVE_OFFER_YES
    THEN send_whatsapp(
            send_and_map([s1 EXCEPT !.live_sessions = @ \cup {number}],
                         "live_session_started", number),
            number, "live_offer_accepted", "")
    ELSE send_whatsapp(s1, number, "live_offer_declined", "")

\* Step 6: the customer answers a quote.
OptionSelection(st, number, message, llm) ==
    LET pending == st.pending_selections[number]
        options == pending.options
        final_prices == pending.final_prices
        choice == interpret_option_choice(message, options, llm)
    IN
    IF choice = NoChoice
    THEN send_whatsapp(st, number, "choose_option", Len(options))
    ELSE IF choice + 1 > Len(final_prices)
    THEN \* final_prices[choice] raises IndexError, caught by webhook()
         send_whatsapp(st, MONITOR, "webhook_error_IndexError", "")
    ELSE
    LET s1 == cancel_followup(st, number)
        s2 == send_whatsapp(s1, number, "order_confirmed", final_prices[choice + 1])
        s3 == send_whatsapp(s2, OWNER, "customer_confirmed", choice + 1)
        s4 == send_whatsapp(s3, LOG, "confirmed", choice + 1)
        s5 == [s4 EXCEPT !.pending_selections = DictPop(@, number),
                         !.conversations = DictPop(@, number)]
    IN  cancel_long_wait_alert(s5, number)

\* Step 6.5: the customer confirms or corrects the queued request.
ConfirmingStep(st, number, message, correction) ==
    LET conv == st.conversations[number] IN
    IF _is_affirmative(message)
    THEN [st EXCEPT
            !.conversations[number].confirming = FALSE,
            !.conversations[number].state = ConversationState.WAITING,
            !.conversations[number].request_queue = <<>>,
            !.runs = DictPut(@, <<number, st.n_runs[number] + 1>>,
                             NewRun(number, conv.request_queue)),
            !.n_runs[number] = @ + 1,
            !.ok = @ /\ st.n_runs[number] < MaxRuns]
    ELSE IF correction # NoUpdate
    THEN send_whatsapp(
            [st EXCEPT !.conversations[number].request_queue =
                            _apply_to_queue(@, correction)],
            number, "queue_confirmation", "")
    ELSE send_whatsapp(st, number, "correction_reminder", "")

\* The route of a customer's text message, in the order the handler tests.
Route(st, number) ==
    IF number \in st.pending_live_offers THEN "live_offer"
    ELSE IF number \in st.live_sessions THEN "live_session"
    ELSE IF number \in DOMAIN st.pending_selections THEN "selection"
    ELSE IF number \in DOMAIN st.conversations /\ st.conversations[number].confirming
         THEN "confirming"
    ELSE "request"

\* A text message of a customer (not the owner, a supplier or a store).
_webhook_handler(st, number, message, llm, correction) ==
    CASE Route(st, number) = "live_offer" -> LiveOfferAnswer(st, number, message)
      [] Route(st, number) = "live_session" -> send_and_map(st, "live_relay", number)
      [] Route(st, number) = "selection" -> OptionSelection(st, number, message, llm)
      [] Route(st, number) = "confirming" -> ConfirmingStep(st, number, message, correction)
      [] OTHER -> StartThread(st, number, message)

\* An image of a customer: relayed to the owner; a caption of three words or
\* more is handled as a request.
_handle_image_relay(st, number, caption) ==
    LET s1 == send_and_map(st, "image_relay", number) IN
    IF Len(caption) >= 3
    THEN StartThread(s1, number, caption)
    ELSE send_whatsapp(s1, number, "image_received", "")

\* A text message of the owner.
OwnerHandler(st, message, replied_to) ==
    IF replied_to # NoReply /\ replied_to \in DOMAIN st.escalation_message_map
    THEN LET customer_number == st.escalation_message_map[replied_to] IN
         IF message.body = "fin"
         THEN send_whatsapp(
                send_whatsapp([st EXCEPT !.live_sessions = @ \ {customer_number}],
                              customer_number, "session_closed", ""),
                OWNER, "session_ended", customer_number)
         ELSE send_whatsapp(
                [send_whatsapp(st, customer_number, "owner_reply", "") EXCEPT
                    !.escalation_message_map = DictPop(@, replied_to)],
                OWNER, "forwarded", customer_number)
    ELSE IF message.body = "tomar"
    THEN send_whatsapp(
            send_whatsapp([st EXCEPT !.live_sessions = @ \cup {message.number}],
                          message.number, "takeover_notice", ""),
            OWNER, "live_session_started", message.number)
    ELSE handle_approval(st, message, replied_to)

\* ----------------------------------------------------------------- sourcing

\* The first part of _run_multi_sourcing, up to the submission of one
\* source_parts call per item.
BeginSourcing(st, number, queue) ==
    LET s1 == send_whatsapp(st, number, "sourcing_ack", Len(queue))
        s2 == schedule_followup(s1, number)
    IN  [s2 EXCEPT !.out = @ \o [i \in 1..Len(queue) |-> Msg(LOG, "received", queue[i])]]

\* The loop over as_completed: done holds the finished calls in the order they
\* finished.  fut.result(timeout=35) is asked of a finished call only, so an
\* item is timed out only when the call itself raised a timeout.
IsFound(d) == d.outcome.raised = "no" /\ d.outcome.results # <<>>
FoundOf(queue, done) ==
    LET hits == SelectSeq(done, IsFound)
    IN  [k \in 1..Len(hits) |->
            [i |-> hits[k].i, req |-> queue[hits[k].i],
             options |-> build_options(hits[k].outcome.results)]]
NotFoundOf(queue, done) ==
    LET miss == SelectSeq(done, LAMBDA d : ~IsFound(d))
    IN  [k \in 1..Len(miss) |-> queue[miss[k].i]]
TimedOutOf(queue, done) ==
    LET hits == SelectSeq(done, LAMBDA d : d.outcome.raised = "timeout")
    IN  [k \in 1..Len(hits) |-> queue[hits[k].i]]

RECURSIVE NotifyNotFound(_, _, _)
NotifyNotFound(st, number, not_found) ==
    IF not_found = <<>> THEN st
    ELSE NotifyNotFound(
            send_whatsapp(send_whatsapp(st, LOG, "not_found", Head(not_found)),
                          MONITOR, "alert_part_not_found", Head(not_found)),
            number, Tail(not_found))

RECURSIVE DispatchApprovals(_, _, _)
DispatchApprovals(st, number, found) ==
    IF found = <<>> THEN st
    ELSE LET s1 == send_for_approval(st, Head(found).options, Head(found).req, number)
             s2 == schedule_long_wait_alert(s1, number, Head(found).req)
             s3 == send_whatsapp(s2, LOG, "pending_approval", Head(found).req)
         IN  DispatchApprovals(s3, number, Tail(found))

\* A rollback that leaves the queue and the confirming flag alone.
Rollback_state_only(st, number) ==
    IF number \in DOMAIN st.conversations
    THEN [st EXCEPT !.conversations[number].state = ConversationState.ACTIVE]
    ELSE st

\* Nothing was found: the conversation, if it still exists, starts over.
Rollback(st, number) ==
    IF number \in DOMAIN st.conversations
    THEN [st EXCEPT !.conversations[number].state = ConversationState.ACTIVE,
                    !.conversations[number].request_queue = <<>>,
                    !.conversations[number].confirming = FALSE]
    ELSE st

\* The rest of _run_multi_sourcing, once every source_parts call has finished.
FinishSourcing(st, number, queue, done) ==
    LET found == FoundOf(queue, done)
        not_found == NotFoundOf(queue, done)
        timed_out == TimedOutOf(queue, done)
        s0 == [st EXCEPT !.out = @ \o [k \in 1..Len(timed_out) |->
                                        Msg(MONITOR, "alert_sourcing_timeout", timed_out[k])]]
        s1 == cancel_followup(s0, number)
        s2 == IF not_found # <<>>
              THEN NotifyNotFound(
                      send_whatsapp(s1, number, "sourcing_summary",
                                    [found |-> Len(found), not_found |-> Len(not_found)]),
                      number, not_found)
              ELSE s1
        s3 == DispatchApprovals(s2, number, found)
    IN  IF found = <<>> THEN Rollback(s3, number) ELSE s3

\* ------------------------------------------------------------------ actions

NoTexts == [c \in Customers |-> {}]

\* The messages that arrive in one behaviour: the texts and the image captions
\* of each customer, the owner's messages, and whether hours pass.
Environments ==
    { [texts |-> [NoTexts EXCEPT !["c1"] = {T_PART, T_VEH, T_SI}],
       captions |-> NoTexts, owner |-> {}, clock |-> TRUE],
      [texts |-> [NoTexts EXCEPT !["c1"] = {T_TWO, T_SI, T_DOS}],
       captions |-> NoTexts, owner |-> {O_PRICES1, O_PRICES2}, clock |-> FALSE],
      [texts |-> [c \in Customers |-> {T_REQ, T_SI}],
       captions |-> NoTexts, owner |-> {O_PRICES2}, clock |-> FALSE],
      [texts |-> [NoTexts EXCEPT !["c1"] = {T_REQ, T_SI, T_GRACIAS}],
       captions |-> NoTexts, owner |-> {O_PRICES2, O_TEXT}, clock |-> TRUE],
      [texts |-> [NoTexts EXCEPT !["c1"] = {T_HUMANO, T_SI}],
       captions |-> NoTexts, owner |-> {O_TOMAR("c1"), O_FIN, O_TEXT}, clock |-> FALSE],
      [texts |-> NoTexts, captions |-> [NoTexts EXCEPT !["c1"] = Captions],
       owner |-> {O_TOMAR("c1"), O_CANCELAR}, clock |-> FALSE],
      [texts |-> NoTexts, captions |-> NoTexts,
       owner |-> {O_CANCELAR, O_PRICES1}, clock |-> FALSE],
      [texts |-> [[c \in Customers |-> {T_REQ}] EXCEPT !["c1"] = {T_REQ, T_CORR}],
       captions |-> NoTexts, owner |-> {O_TEXT}, clock |-> TRUE] }

NoInfo == [route |-> ""]

Init ==
    /\ conversations = <<>>
    /\ pending_approvals = <<>>
    /\ pending_selections = <<>>
    /\ approval_message_map = <<>>
    /\ escalation_message_map = <<>>
    /\ live_sessions = {}
    /\ pending_live_offers = {}
    /\ _timers = {}
    /\ _long_timers = <<>>
    /\ threads = {}
    /\ runs = <<>>
    /\ owner_inbox = {}
    /\ next_sid = 1
    /\ n_runs = [c \in Customers |-> 0]
    /\ now = 0
    /\ env \in Environments
    /\ ev = [op |-> "init", number |-> "", text |-> <<>>, out |-> <<>>, info |-> NoInfo]

\* The initial state of a behaviour without the owner.
InitOwnerless == Init /\ env.owner = {}

\* A customer's text message reaches the webhook.
WebhookText ==
    \E number \in Customers :
      \E message \in env.texts[number] :
        LET options == IF number \in DOMAIN pending_selections
                       THEN pending_selections[number].options ELSE <<>>
            representative ==
                IF number \in DOMAIN conversations
                   /\ conversations[number].request_queue # <<>>
                THEN conversations[number].request_queue[1] ELSE NoUpdate
        IN  \E llm \in InterpretLLM(message, options),
               correction \in parse_correction(message, representative) :
                Commit(_webhook_handler(Store, number, message, llm, correction),
                       "webhook_text", number, message,
                       [route |-> Route(Store, number),
                        choice |-> interpret_option_choice(message, options, llm)])

\* A customer's image reaches the webhook.
WebhookImage ==
    \E number \in Customers :
      \E caption \in env.captions[number] :
        Commit(_handle_image_relay(Store, number, caption),
               "webhook_image", number, caption, NoInfo)

\* A process_customer_request thread runs.
ProcessCustomerRequest ==
    \E th \in threads :
        LET st == [Store EXCEPT !.threads = @ \ {th}]
            queue == _get_or_create_conversation(st, th.number)
                        .conversations[th.number].request_queue
            known == _known_from_queue(queue)
        IN  \E new_requests \in { r \in parse_request_multi(th.message) :
                                    Len(queue) + Len(r) <= MaxQueue },
               partial \in (IF known # NoUpdate
                            THEN extract_partial(th.message, known) ELSE { NoUpdate }),
               needs_human \in detect_needs_human(th.message) :
                Commit(process_customer_request(st, th.number, th.message,
                                                new_requests, partial, needs_human),
                       "process_customer_request", th.number, th.message,
                       [route |-> "", new_requests |-> new_requests, partial |-> partial])

\* A text message of the owner reaches the webhook: a reply to one of the
\* messages the owner received, or no reply.
OwnerText ==
    \E message \in env.owner,
       replied_to \in {NoReply} \cup {Wamid(n) : n \in 1..(next_sid - 1)}
                      \cup {ApprovalWamid(b) : b \in owner_inbox} :
        Commit(OwnerHandler(Store, message, replied_to),
               "owner_text", OWNER, message, [route |-> "", replied_to |-> replied_to])

\* A sourcing thread starts: acknowledgement, reminder, one call per item.
RunStart ==
    \E id \in DOMAIN runs :
        /\ runs[id].pc = "start"
        /\ Commit(BeginSourcing([Store EXCEPT !.runs[id].pc = "sourcing"],
                                runs[id].number, runs[id].queue),
                  "run_start", runs[id].number, <<>>, NoInfo)

Pending(run) == {i \in 1..Len(run.queue) : \A k \in 1..Len(run.done) : run.done[k].i # i}

\* One source_parts call returns.
SourcePartsReturns ==
    \E id \in DOMAIN runs :
        /\ runs[id].pc = "sourcing"
        /\ \E i \in Pending(runs[id]), outcome \in SourceOutcomes :
            Commit([Store EXCEPT !.runs[id].done = Append(@, [i |-> i, outcome |-> outcome])],
                   "source_parts", runs[id].number, <<>>, NoInfo)

\* The hard per-item timeout passes while a source_parts call is still running.
HardTimeoutPasses ==
    \E id \in DOMAIN runs :
        /\ runs[id].pc = "sourcing"
        /\ \E i \in Pending(runs[id]) \ runs[id].late :
            Commit([Store EXCEPT !.runs[id].late = @ \cup {i}],
                   "hard_timeout", runs[id].number, <<>>, NoInfo)

\* Every call has finished: the thread classifies, notifies and ends.
RunFinish ==
    \E id \in DOMAIN runs :
        /\ runs[id].pc = "sourcing"
        /\ Pending(runs[id]) = {}
        /\ Commit(FinishSourcing([Store EXCEPT !.runs = DictPop(@, id)],
                                 runs[id].number, runs[id].queue, runs[id].done),
                  "run_finish", runs[id].number, <<>>,
                  [route |-> "", run |-> runs[id],
                   found |-> FoundOf(runs[id].queue, runs[id].done),
                   had_conversation |-> runs[id].number \in DOMAIN conversations,
                   conversation_before |->
                        IF runs[id].number \in DOMAIN conversations
                        THEN conversations[runs[id].number]
                        ELSE _new_conversation(0)])

\* A follow-up timer fires.
FollowupFires ==
    \E c \in _timers :
        Commit(send_whatsapp([Store EXCEPT !.timers = @ \ {c}], c, "FOLLOWUP_MESSAGE", ""),
               "followup_fires", c, <<>>, NoInfo)

\* A long-wait timer fires.
LongWaitFires ==
    \E c \in DOMAIN _long_timers :
        Commit(send_whatsapp([Store EXCEPT !.long_timers = DictPop(@, c)],
                             MONITOR, "alert_customer_waiting",
                             [number |-> c, request_info |-> _long_timers[c]]),
               "long_wait_fires", c, <<>>, NoInfo)

\* More than the conversation TTL passes.
Tick ==
    /\ env.clock
    /\ now < MaxTicks * (CONVERSATION_TTL + 1)
    /\ Commit([Store EXCEPT !.now = @ + CONVERSATION_TTL + 1], "tick", "", <<>>, NoInfo)

Expired_all == DOMAIN conversations

Expired == {n \in DOMAIN conversations : now - conversations[n].last_seen > CONVERSATION_TTL}

\* A sweep of _cleanup_loop that finds stale conversations.
CleanupSweep ==
    /\ Expired # {}
    /\ Commit([Store EXCEPT !.conversations = [n \in DOMAIN @ \ Expired |-> @[n]]],
              "cleanup", "", <<>>,
              [route |-> "", expired |-> Expired,
               alerted |-> {n \in Expired : /\ conversations[n].confirming
                                           /\ conversations[n].request_queue # <<>>}])

Next ==
    \/ WebhookText
    \/ WebhookImage
    \/ ProcessCustomerRequest
    \/ OwnerText
    \/ RunStart
    \/ SourcePartsReturns
    \/ HardTimeoutPasses
    \/ RunFinish
    \/ FollowupFires
    \/ LongWaitFires
    \/ Tick
    \/ CleanupSweep

Spec == Init /\ [][Next]_vars

\* --------------------------------------------------------------- properties

Sent(out, to, kind) == \E i \in 1..Len(out) : out[i].to = to /\ out[i].kind = kind
CountSent(out, to, kind) ==
    Cardinality({i \in 1..Len(out) : out[i].to = to /\ out[i].kind = kind})
ConfirmingOf(convs, n) == n \in DOMAIN convs /\ convs[n].confirming
AllFourFields(queue) ==
    /\ queue # <<>>
    /\ \A i \in 1..Len(queue) : \A f \in {"part", "make", "model", "year"} : queue[i][f] # ""

\* C1: a run of process_customer_request turns confirming on only when the
\* queue it leaves is non-empty and every item has part, make, model and year;
\* when it reaches the completeness test with an incomplete item it sends the
\* missing-field prompt and leaves confirming as it was.
C1_ConfirmOnlyWhenComplete ==
    [][ev'.op = "process_customer_request" /\ ev'.number \in DOMAIN conversations'
        => LET n == ev'.number
               queue == conversations'[n].request_queue
               tested == /\ ~is_goodbye(ev'.text)
                         /\ \/ ev'.info.new_requests # <<>>
                            \/ ev'.info.partial # NoUpdate
           IN  /\ ConfirmingOf(conversations', n) /\ ~ConfirmingOf(conversations, n)
                    => AllFourFields(queue)
               /\ tested /\ ~AllFourFields(queue)
                    => /\ Sent(ev'.out, n, "missing_fields")
                       /\ ~Sent(ev'.out, n, "queue_confirmation")
                       /\ ConfirmingOf(conversations', n) = ConfirmingOf(conversations, n)
               /\ tested /\ AllFourFields(queue)
                    => /\ ConfirmingOf(conversations', n)
                       /\ Sent(ev'.out, n, "queue_confirmation")]_vars

\* C1 happens: a partial answer completed the queue and the confirmation went out.
C1_Witness ==
    /\ ev.op = "process_customer_request"
    /\ ev.info.partial # NoUpdate
    /\ ConfirmingOf(conversations, ev.number)
    /\ AllFourFields(conversations[ev.number].request_queue)
    /\ Sent(ev.out, ev.number, "queue_confirmation")

\* C1, the other case: an incomplete item was enqueued and the prompt went out.
C1_WitnessPrompt ==
    /\ ev.op = "process_customer_request"
    /\ ev.info.new_requests # <<>>
    /\ ~ConfirmingOf(conversations, ev.number)
    /\ ev.number \in DOMAIN conversations
    /\ ~AllFourFields(conversations[ev.number].request_queue)
    /\ Sent(ev.out, ev.number, "missing_fields")

HasApproval(pending, customer, item) ==
    \E i \in 1..Len(pending) :
        /\ pending[i].customer_number = customer
        /\ pending[i].parsed = item.req
        /\ pending[i].options = item.options

\* C2: when a sourcing run finishes, every item it found has its own
\* PendingApproval, holding that item's request and options.
C2_EveryFoundItemHasApproval ==
    ev.op = "run_finish"
        => \A k \in 1..Len(ev.info.found) :
              HasApproval(pending_approvals, ev.number, ev.info.found[k])

\* C3: when a sourcing run finishes, every item whose source_parts call
\* outlasted the hard timeout is not among the found items, and one timeout
\* alert was raised for each of them.
C3_LateItemsTimeOut ==
    ev.op = "run_finish"
        => /\ \A k \in 1..Len(ev.info.found) : ev.info.found[k].i \notin ev.info.run.late
           /\ CountSent(ev.out, MONITOR, "alert_sourcing_timeout")
                >= Cardinality(ev.info.run.late)

\* C4: every stored PendingSelection has as many final prices as options.
C4_PricesAlignWithOptions ==
    \A n \in DOMAIN pending_selections :
        Len(pending_selections[n].final_prices) = Len(pending_selections[n].options)

\* The customer an approval request was sent for, when replied_to is the id of
\* an approval request the owner has received; None otherwise.
RepliedApproval(replied_to) ==
    IF \E b \in owner_inbox : replied_to = ApprovalWamid(b)
    THEN (CHOOSE b \in owner_inbox : replied_to = ApprovalWamid(b)).customer
    ELSE None

\* C5: a valid price list sent as a reply to an approval request is matched to
\* the pending approval of the customer that request was sent for.
C5_ReplyToTakesPrecedence ==
    [][/\ ev'.op = "owner_text"
       /\ ev'.text.body = "prices"
       /\ RepliedApproval(ev'.info.replied_to) # None
       /\ RepliedApproval(ev'.info.replied_to) \in OKeys(pending_approvals)
       => LET c == RepliedApproval(ev'.info.replied_to) IN
          /\ Sent(ev'.out, c, "quote")
          /\ c \notin OKeys(pending_approvals')
          /\ \A d \in OKeys(pending_approvals) \ {c} : d \in OKeys(pending_approvals')]_vars

CountMatches(pending, prices) ==
    {i \in 1..Len(pending) : Len(pending[i].options) = Len(prices)}

\* C6: a valid price list sent without a reply-to correlation, with no pending
\* approval or with more than one candidate, gets the clarifying message and
\* changes neither pending_approvals nor pending_selections.
C6_NoGuessing ==
    [][/\ ev'.op = "owner_text"
       /\ ev'.text.body = "prices"
       /\ ev'.info.replied_to = NoReply
       /\ \/ pending_approvals = <<>>
          \/ Cardinality(CountMatches(pending_approvals, ev'.text.prices)) > 1
          \/ /\ CountMatches(pending_approvals, ev'.text.prices) = {}
             /\ Len(pending_approvals) > 1
       => /\ Sent(ev'.out, OWNER, "no_matching_order")
          /\ pending_approvals' = pending_approvals
          /\ pending_selections' = pending_selections]_vars

\* C7: a goodbye of a customer the bot is handling (no live session, no live
\* offer) is handed to process_customer_request, which removes the
\* Conversation, cancels the follow-up reminder, and sends the mid-flow
\* farewell exactly when the queue was non-empty.
C7_GoodbyeClosesInAnyState ==
    [][/\ ev'.op = "webhook_text" /\ is_goodbye(ev'.text)
          /\ ev'.info.route \notin {"live_offer", "live_session"}
          => [number |-> ev'.number, message |-> ev'.text] \in threads'
       /\ ev'.op = "process_customer_request" /\ is_goodbye(ev'.text)
          => /\ ev'.number \notin DOMAIN conversations'
             /\ ev'.number \notin _timers'
             /\ Sent(ev'.out, ev'.number, "GOODBYE_MID_FLOW")
                  <=> /\ ev'.number \in DOMAIN conversations
                      /\ conversations[ev'.number].request_queue # <<>>]_vars

\* C8: an event of a customer in a live session is relayed to the owner and
\* nothing else: no process_customer_request is started, and the customer's
\* Conversation, PendingApproval and PendingSelection stay as they are.
C8_LiveSessionBypassesBot ==
    [][/\ ev'.op \in {"webhook_text", "webhook_image"}
       /\ ev'.number \in live_sessions
       => /\ threads' = threads
          /\ conversations' = conversations
          /\ pending_approvals' = pending_approvals
          /\ pending_selections' = pending_selections]_vars

StartedRuns(before, after) == DOMAIN after \ DOMAIN before

HandsOverQueue(n) ==
    /\ n \in DOMAIN conversations'
    /\ conversations'[n].state = "waiting"
    /\ ~conversations'[n].confirming
    /\ conversations'[n].request_queue = <<>>
    /\ Cardinality(StartedRuns(runs, runs')) = 1
    /\ \A id \in DOMAIN runs : runs'[id] = runs[id]
    /\ \A id \in StartedRuns(runs, runs') :
          /\ runs'[id].number = n
          /\ runs'[id].queue = conversations[n].request_queue
          /\ runs'[id].pc = "start"

\* C9 as stated: an affirmative message of a customer whose conversation has
\* confirming=true leaves the conversation WAITING, not confirming, with an
\* empty queue, and starts exactly one sourcing task with the detached items
\* in their order; the task has not run when the handler returns.
C9_AffirmativeStartsSourcing ==
    [][/\ ev'.op = "webhook_text"
       /\ ConfirmingOf(conversations, ev'.number)
       /\ _is_affirmative(ev'.text)
       => HandsOverQueue(ev'.number)]_vars

\* C9 amended: the same, for a customer with no pending live offer, no live
\* session and no PendingSelection.
C9_AffirmativeStartsSourcingWhenRouted ==
    [][/\ ev'.op = "webhook_text"
       /\ ConfirmingOf(conversations, ev'.number)
       /\ _is_affirmative(ev'.text)
       /\ ev'.number \notin pending_live_offers
       /\ ev'.number \notin live_sessions
       /\ ev'.number \notin DOMAIN pending_selections
       => HandsOverQueue(ev'.number)]_vars

\* C9 happens: a two-item queue was confirmed and handed to a sourcing task.
C9_Witness ==
    /\ ev.op = "webhook_text"
    /\ ev.info.route = "confirming"
    /\ _is_affirmative(ev.text)
    /\ \E id \in DOMAIN runs :
          /\ runs[id].number = ev.number
          /\ runs[id].pc = "start"
          /\ Len(runs[id].queue) = 2
    /\ conversations[ev.number].state = "waiting"

\* C10: a sourcing run that finds nothing, for a customer whose Conversation
\* still exists, leaves that conversation ACTIVE with an empty queue and
\* confirming=false, and registers no PendingApproval.
C10_RollbackWhenNothingFound ==
    [][/\ ev'.op = "run_finish"
       /\ ev'.info.found = <<>>
       /\ ev'.number \in DOMAIN conversations
       => /\ ev'.number \in DOMAIN conversations'
          /\ conversations'[ev'.number].state = "active"
          /\ conversations'[ev'.number].request_queue = <<>>
          /\ ~conversations'[ev'.number].confirming
          /\ pending_approvals' = pending_approvals
          /\ ~Sent(ev'.out, OWNER, "approval_request")]_vars

\* C10 happens: nothing was found while the customer had queued a new request.
C10_Witness ==
    /\ ev.op = "run_finish"
    /\ ev.info.found = <<>>
    /\ ev.info.had_conversation
    /\ ev.info.conversation_before.request_queue # <<>>
    /\ ev.number \in DOMAIN conversations
    /\ conversations[ev.number].state = "active"
    /\ conversations[ev.number].request_queue = <<>>

\* ------------------------------------------------- the approval tables alone

\* One turn of the approval loop at the end of _run_multi_sourcing, for a
\* customer whose run found the item: the request goes to the owner and the
\* long-wait alert is scheduled.  A customer may come back with a new request
\* while the earlier one still awaits approval, so the loop is entered any
\* number of times and in any order of customers.
RegisterApproval ==
    \E number \in Customers, req \in {ITEM_ALT},
       results \in {<<R_USA>>, <<R_USA, R_SHEET>>} :
        Commit(DispatchApprovals(Store, number,
                    <<[i |-> 1, req |-> req, options |-> build_options(results)]>>),
               "register_approval", number, <<>>, NoInfo)

NextApproval == RegisterApproval \/ OwnerText

SpecApproval == Init /\ [][NextApproval]_vars

\* ------------------------------------------------------- the merge alone

\* The items and the updates the merge is tried on: every subset of the four
\* fields set, and update values that are absent, blank, padded or clean.
QueueItems ==
    { Item(p, ma, mo, y) : p \in {"", "alternador"}, ma \in {"", "toyota"},
                           mo \in {"", "hilux"}, y \in {"", "2008"} }
Queues == { <<a>> : a \in QueueItems } \cup { <<a, b>> : a, b \in QueueItems }
Updates ==
    { Item(p, ma, mo, y) : p \in {"", BLANK, PADDED, "alternador"},
                           ma \in {"", BLANK, PADDED, "toyota"},
                           mo \in {"", BLANK}, y \in {"", PADDED} }

\* c1 has a conversation with some queue.
InitQueue ==
    /\ \E queue \in Queues :
            conversations = ("c1" :> [_new_conversation(0) EXCEPT !.request_queue = queue])
    /\ pending_approvals = <<>>
    /\ pending_selections = <<>>
    /\ approval_message_map = <<>>
    /\ escalation_message_map = <<>>
    /\ live_sessions = {}
    /\ pending_live_offers = {}
    /\ _timers = {}
    /\ _long_timers = <<>>
    /\ threads = {}
    /\ runs = <<>>
    /\ owner_inbox = {}
    /\ next_sid = 1
    /\ n_runs = [c \in Customers |-> 0]
    /\ now = 0
    /\ env = [texts |-> NoTexts, captions |-> NoTexts, owner |-> {}, clock |-> FALSE]
    /\ ev = [op |-> "init", number |-> "", text |-> <<>>, out |-> <<>>, info |-> NoInfo]

\* _apply_to_queue is called once on c1's queue, with some update.
ApplyToQueue ==
    /\ ev.op = "init"
    /\ \E update \in Updates :
        Commit([Store EXCEPT !.conversations["c1"].request_queue =
                                _apply_to_queue(@, update)],
               "_apply_to_queue", "c1", update,
               [route |-> "", queue |-> conversations["c1"].request_queue])

SpecQueue == InitQueue /\ [][ApplyToQueue]_vars

\* ------------------------------------------------- the recommender alone

SupplierResults == {R_USA, R_SHEET, R_SHEET_2, R_NOCOST, R_BIG}
RECURSIVE ResultLists(_)
ResultLists(n) ==
    IF n = 0 THEN {<<>>}
    ELSE LET shorter == ResultLists(n - 1)
         IN  shorter \cup {Append(l, r) : l \in {x \in shorter : Len(x) = n - 1},
                                           r \in SupplierResults}

\* build_options is called once, on some list of supplier results.
BuildOptions ==
    /\ ev.op = "init"
    /\ \E results \in ResultLists(MaxResults) :
        Commit(Store, "build_options", "", results,
               [route |-> "", options |-> build_options(results)])

SpecOptions == Init /\ [][BuildOptions]_vars

\* source_parts is called once; its suppliers answer with some results.
SourceParts ==
    /\ ev.op = "init"
    /\ \E collected \in ResultLists(MaxResults) :
        Commit(Store, "source_parts", "", collected,
               [route |-> "", results |-> source_parts(collected)])

SpecSourcing == Init /\ [][SourceParts]_vars

\* ------------------------------------- process_customer_request, by statement

\* The webhook returns as soon as it has started the thread of a message, and
\* nothing orders the threads of one customer: here a thread is followed
\* through
\*   get    conv = conversations.get(number)
\*   store  conv = _new_conversation(); conversations[number] = conv
\*   body   the rest of process_customer_request, on the thread's conv
\* conv is a reference: alias says that it is the object the dict holds for
\* the number, otherwise obj is an object the dict does not (or no longer) hold.
\* enqueued records what the thread appended to its conv.
RaceTexts == {T_REQ, T_PART, T_VEH, T_SI}
SharedConv == [alias |-> TRUE, obj |-> _new_conversation(0)]
RaceThread(id, number, message) ==
    [id |-> id, number |-> number, message |-> message, pc |-> "get",
     conv |-> SharedConv, enqueued |-> <<>>]

\* The other threads' references to the object the dict held for number, once
\* the dict holds it no longer.
Detach(ths, number, convs) ==
    { IF t.number = number /\ t.pc = "body" /\ t.conv.alias /\ number \in DOMAIN convs
      THEN [t EXCEPT !.conv = [alias |-> FALSE, obj |-> convs[number]]]
      ELSE t : t \in ths }

\* A text message of c1 reaches the webhook.
RaceWebhook ==
    \E message \in RaceTexts :
        LET number == "c1"
            id == Cardinality(threads) + 1
        IN  IF Route(Store, number) = "request"
            THEN /\ id <= MaxRaceThreads
                 /\ Commit([Store EXCEPT !.threads = @ \cup {RaceThread(id, number, message)}],
                           "webhook_text", number, message,
                           [route |-> "request", choice |-> NoChoice, id |-> id])
            ELSE Commit(_webhook_handler(Store, number, message, NoChoice, NoUpdate),
                        "webhook_text", number, message,
                        [route |-> Route(Store, number), choice |-> NoChoice, id |-> 0])

\* conv = conversations.get(number), and the test that follows it.
ThreadGet ==
    \E t \in threads :
        /\ t.pc = "get"
        /\ LET fresh == \/ t.number \notin DOMAIN conversations
                        \/ conversations[t.number].state = ConversationState.COMPLETED
               t2 == IF fresh
                     THEN [t EXCEPT !.pc = "store",
                                    !.conv = [alias |-> FALSE, obj |-> _new_conversation(now)]]
                     ELSE [t EXCEPT !.pc = "body"]
           IN  Commit([Store EXCEPT !.threads = (@ \ {t}) \cup {t2}],
                      "thread_get", t.number, t.message, [route |-> "", id |-> t.id])

\* conversations[number] = conv
ThreadStore ==
    \E t \in threads :
        /\ t.pc = "store"
        /\ LET others == Detach(threads \ {t}, t.number, conversations)
               t2 == [t EXCEPT !.pc = "body", !.conv = SharedConv]
           IN  Commit([Store EXCEPT !.conversations = DictPut(@, t.number, t.conv.obj),
                                    !.threads = others \cup {t2}],
                      "thread_store", t.number, t.message, [route |-> "", id |-> t.id])

\* The rest of process_customer_request.  What it does to conv goes to the
\* thread's object; conversations.pop(number) goes to the dict.
ThreadBody ==
    \E t \in threads :
        /\ t.pc = "body"
        /\ LET mine == IF t.conv.alias THEN conversations[t.number] ELSE t.conv.obj
               st == [Store EXCEPT !.conversations = DictPut(@, t.number, mine)]
               known == _known_from_queue(mine.request_queue)
           IN  \E new_requests \in parse_request_multi(t.message),
                  partial \in (IF known # NoUpdate
                               THEN extract_partial(t.message, known) ELSE { NoUpdate }) :
                 LET r == process_customer_request(st, t.number, t.message,
                                                   new_requests, partial, FALSE)
                     popped == t.number \notin DOMAIN r.conversations
                     convs == IF popped THEN DictPop(conversations, t.number)
                              ELSE IF t.conv.alias THEN r.conversations
                              ELSE conversations
                     others == IF popped
                               THEN Detach(threads \ {t}, t.number, conversations)
                               ELSE threads \ {t}
                     t2 == [t EXCEPT !.pc = "done", !.conv = SharedConv,
                                     !.enqueued = new_requests]
                 IN  Commit([r EXCEPT !.conversations = convs,
                                      !.threads = others \cup {t2}],
                            "thread_body", t.number, t.message,
                            [route |-> "", id |-> t.id])

NextRace == RaceWebhook \/ ThreadGet \/ ThreadStore \/ ThreadBody

SpecRace == InitOwnerless /\ [][NextRace]_vars

\* ------------------------------------------------ the follow-up timers, by statement

\* schedule_followup, cancel_followup and the callback _send of
\* src/utils/followup.py, statement by statement, for the customer c1
\* (schedule_long_wait_alert, cancel_long_wait_alert and _alert are the same
\* statements on _long_timers).  Here _timers holds the Timer that the table
\* keeps for c1, by its id, and threads holds the Timer threads and the schedule calls under way:
\*   waiting   the Timer sleeps; cancel() stops it
\*   callback  _send has started; cancel() comes too late
\*   sent      _send has popped the table entry and sent the reminder
\* forbidden marks a Timer that was waiting when a cancel_followup returned
\* with no schedule call made since.
TimerIds == {t.id : t \in {u \in threads : u.kind = "timer"}}

\* schedule_followup begins: cancel_followup(customer_number).
ScheduleBegins ==
    /\ Cardinality(TimerIds) + Cardinality({u \in threads : u.kind = "schedule"}) < MaxTimers
    /\ LET old == _timers
           ths == { IF u.kind = "timer"
                    THEN [u EXCEPT !.cancelled = @ \/ u.id \in old, !.forbidden = FALSE]
                    ELSE u : u \in threads }
           call == [kind |-> "schedule", id |-> 0, pc |-> "store",
                    cancelled |-> FALSE, forbidden |-> FALSE,
                    run |-> "sourcing", quiet |-> FALSE]
       IN  /\ call \notin threads
           /\ Commit([Store EXCEPT !.timers = {}, !.threads = ths \cup {call}],
                     "schedule_begins", "c1", <<>>, NoInfo)

\* schedule_followup ends: t = threading.Timer(delay, _send); t.start();
\* _timers[customer_number] = t
ScheduleEnds ==
    \E call \in threads :
        /\ call.kind = "schedule"
        /\ LET id == Cardinality(TimerIds) + 1
               t == [kind |-> "timer", id |-> id, pc |-> "waiting",
                     cancelled |-> FALSE, forbidden |-> FALSE,
                     run |-> "sourcing", quiet |-> FALSE]
           IN  Commit([Store EXCEPT !.timers = {id},
                                    !.threads = (@ \ {call}) \cup {t}],
                      "schedule_ends", "c1", <<>>, NoInfo)

\* The delay of a Timer that was not cancelled is over: _send starts.
TimerWakes ==
    \E t \in threads :
        /\ t.kind = "timer" /\ t.pc = "waiting" /\ ~t.cancelled
        /\ Commit([Store EXCEPT !.threads = (@ \ {t}) \cup {[t EXCEPT !.pc = "callback"]}],
                  "timer_wakes", "c1", <<>>, [route |-> "", id |-> t.id])

\* _send: _timers.pop(customer_number, None); send_whatsapp(...)
TimerSends ==
    \E t \in threads :
        /\ t.kind = "timer" /\ t.pc = "callback"
        /\ Commit(send_whatsapp(
                    [Store EXCEPT !.timers = {},
                                  !.threads = (@ \ {t}) \cup {[t EXCEPT !.pc = "sent"]}],
                    "c1", "FOLLOWUP_MESSAGE", ""),
                  "timer_sends", "c1", <<>>, [route |-> "", id |-> t.id])

\* cancel_followup: t = _timers.pop(customer_number, None); if t: t.cancel()
\* The caller is the cancel step of the run that scheduled Timer `by`
\* (_run_multi_sourcing, once per run), or with by = 0 any other caller.
CancelFollowup ==
    \E old \in {_timers} :
      \E by \in {0} \cup {u.id : u \in {v \in threads : v.kind = "timer" /\ v.run = "sourcing"}} :
        LET ths == { IF u.kind = "timer"
                     THEN [u EXCEPT !.cancelled = @ \/ u.id \in old,
                                    !.forbidden = @ \/ u.pc = "waiting",
                                    !.run = IF u.id = by THEN "cancelled" ELSE @,
                                    !.quiet = @ \/ (u.id = by /\ u.pc = "waiting")]
                     ELSE u : u \in threads }
        IN
        Commit([Store EXCEPT !.timers = {}, !.threads = ths],
               "cancel_followup", "c1", <<>>, [route |-> "", id |-> by])

NextTimers == ScheduleBegins \/ ScheduleEnds \/ TimerWakes \/ TimerSends \/ CancelFollowup

SpecTimers == InitOwnerless /\ [][NextTimers]_vars

\* C11: for a customer with no Conversation, a message that is no goodbye and
\* yields no item leaves the conversations map without an entry for them.
C11_ConversationalCreatesNoConversation ==
    [][/\ ev'.op = "process_customer_request"
       /\ ev'.number \notin DOMAIN conversations
       /\ ~is_goodbye(ev'.text)
       /\ ev'.info.new_requests = <<>>
       => ev'.number \notin DOMAIN conversations']_vars

\* C12: an owner approval that succeeds for customer c removes c's
\* PendingApproval, stores c's PendingSelection with the same options and
\* request and the owner's prices, sends c the quote, and leaves neither a
\* follow-up timer nor a long-wait timer scheduled for c.
C12_ApprovalMovesToSelection ==
    [][ev'.op = "owner_text" /\ Sent(ev'.out, OWNER, "quote_sent")
       => \E c \in Customers :
            /\ c \in OKeys(pending_approvals)
            /\ c \notin OKeys(pending_approvals')
            /\ \A d \in OKeys(pending_approvals) \ {c} : d \in OKeys(pending_approvals')
            /\ c \in DOMAIN pending_selections'
            /\ pending_selections'[c] =
                    [options |-> OGet(pending_approvals, c).options,
                     parsed |-> OGet(pending_approvals, c).parsed,
                     final_prices |-> ev'.text.prices]
            /\ Sent(ev'.out, c, "quote")
            /\ c \notin _timers'
            /\ c \notin DOMAIN _long_timers']_vars

\* C12 happens: the owner priced a pending approval and the customer was quoted.
C12_Witness ==
    /\ ev.op = "owner_text"
    /\ ev.text.body = "prices"
    /\ Sent(ev.out, OWNER, "quote_sent")
    /\ \E c \in DOMAIN pending_selections :
          /\ Sent(ev.out, c, "quote")
          /\ pending_selections[c].final_prices = ev.text.prices
          /\ c \notin OKeys(pending_approvals)

\* C13: an owner message that handle_approval receives and that is neither
\* 'cancelar' nor a list of numbers gets the corrective text and changes
\* neither the pending approvals, the pending selections, the approval
\* message map nor any timer.
C13_UnparseablePricesChangeNothing ==
    [][/\ ev'.op = "owner_text"
       /\ ev'.text.body \notin {"cancelar", "prices", "tomar"}
       /\ ev'.info.replied_to \notin DOMAIN escalation_message_map
       => /\ ev'.out = <<Msg(OWNER, "prices_not_understood", "")>>
          /\ pending_approvals' = pending_approvals
          /\ pending_selections' = pending_selections
          /\ approval_message_map' = approval_message_map
          /\ _timers' = _timers
          /\ _long_timers' = _long_timers]_vars

\* C13 happens: the owner wrote plain text while an approval was pending and
\* its long-wait timer was running.
C13_Witness ==
    /\ ev.op = "owner_text"
    /\ ev.text = O_TEXT
    /\ Sent(ev.out, OWNER, "prices_not_understood")
    /\ pending_approvals # <<>>
    /\ _long_timers # <<>>

\* C14: 'cancelar' with at least one pending approval removes exactly the
\* PendingApproval registered most recently (here: in the step just before),
\* also when that customer had an earlier entry, tells that customer the part
\* is unavailable and leaves the other approvals alone; with none pending it
\* changes nothing and answers that there are no pending orders.
C14_CancelarRemovesMostRecent ==
    [][/\ ev'.op = "owner_text"
       /\ ev'.text = O_CANCELAR
       /\ ev'.info.replied_to \notin DOMAIN escalation_message_map
       => IF pending_approvals = <<>>
          THEN /\ pending_approvals' = <<>>
               /\ ev'.out = <<Msg(OWNER, "no_pending_orders", "")>>
          ELSE \E c \in OKeys(pending_approvals) :
                 /\ ev.op = "register_approval" => c = ev.number
                 /\ pending_approvals' = SeqFilterOut(pending_approvals, c)
                 /\ Len(pending_approvals') = Len(pending_approvals) - 1
                 /\ Sent(ev'.out, c, "unavailable")]_vars

\* C15: a reply of a customer with a PendingSelection that resolves to an
\* option index removes the PendingSelection and the Conversation, cancels
\* both timers, tells customer and owner the chosen option's final terms and
\* logs one 'confirmed' entry with chosen_option = index + 1.
C15_ResolvedChoiceClosesSelection ==
    /\ ev.op = "webhook_text"
    /\ ev.info.route = "selection"
    /\ ev.info.choice # NoChoice
    => LET n == ev.number IN
       /\ n \notin DOMAIN pending_selections
       /\ n \notin DOMAIN conversations
       /\ n \notin _timers
       /\ n \notin DOMAIN _long_timers
       /\ Sent(ev.out, n, "order_confirmed")
       /\ Sent(ev.out, OWNER, "customer_confirmed")
       /\ CountSent(ev.out, LOG, "confirmed") = 1
       /\ \A i \in 1..Len(ev.out) :
             ev.out[i].kind = "confirmed" => ev.out[i].about = ev.info.choice + 1

\* The same, for a quote whose final prices number as many as its options.
C15_AlignedChoiceClosesSelection ==
    [][/\ ev'.op = "webhook_text"
       /\ ev'.info.route = "selection"
       /\ ev'.info.choice # NoChoice
       /\ Len(pending_selections[ev'.number].final_prices)
            = Len(pending_selections[ev'.number].options)
       => LET n == ev'.number IN
          /\ n \notin DOMAIN pending_selections'
          /\ n \notin DOMAIN conversations'
          /\ n \notin _timers' /\ n \notin DOMAIN _long_timers'
          /\ Sent(ev'.out, n, "order_confirmed")
          /\ Sent(ev'.out, OWNER, "customer_confirmed")
          /\ CountSent(ev'.out, LOG, "confirmed") = 1]_vars

\* C16: an entry of the escalation mapping is removed once consumed: after the
\* owner's reply to a relayed message was forwarded the entry of that message
\* is gone, and after 'fin' ended the live session of a customer no entry
\* points to that customer any more.
C16_EscalationEntriesRemovedOnceConsumed ==
    /\ ev.op = "owner_text" /\ Sent(ev.out, OWNER, "forwarded")
       => ev.info.replied_to \notin DOMAIN escalation_message_map
    /\ ev.op = "owner_text"
       => (\A i \in 1..Len(ev.out) :
              ev.out[i].kind = "session_ended"
              => (\A k \in DOMAIN escalation_message_map :
                      escalation_message_map[k] # ev.out[i].about))

\* C17: cancel_followup and cancel_long_wait_alert are total and idempotent:
\* in every state and for every customer the call sends nothing, a second
\* call in a row changes nothing, and a call for a customer without a
\* scheduled timer (never scheduled, cancelled or already fired) leaves the
\* state, both timer tables included, as it was.
C17_CancelIsIdempotentAndTotal ==
    \A c \in Customers :
        LET f1 == cancel_followup(Store, c)
            l1 == cancel_long_wait_alert(Store, c)
        IN  /\ f1.out = <<>> /\ l1.out = <<>>
            /\ cancel_followup(f1, c) = f1
            /\ cancel_long_wait_alert(l1, c) = l1
            /\ c \notin _timers => f1 = Store
            /\ c \notin DOMAIN _long_timers => l1 = Store
            /\ f1.long_timers = _long_timers /\ l1.timers = _timers
            /\ f1.timers = _timers \ {c} /\ l1.long_timers = DictPop(_long_timers, c)

\* C17 happens: a reminder or an alert has just fired, so its customer has no
\* scheduled timer of that kind, while some other timer is still scheduled.
C17_Witness ==
    /\ ev.op \in {"followup_fires", "long_wait_fires"}
    /\ ev.number \notin (IF ev.op = "followup_fires" THEN _timers ELSE DOMAIN _long_timers)
    /\ _timers \cup DOMAIN _long_timers # {}

\* C18 as stated: the merge never changes a field that was non-empty before
\* the call and never sets a field to an empty value; {part: X, make: Y}
\* merged into {part: X} gives {part: X, make: Y}.
C18_MergeNeverSetsEmpty ==
    ev.op = "_apply_to_queue"
    => LET before == ev.info.queue
           after == conversations["c1"].request_queue
       IN  /\ Len(after) = Len(before)
           /\ \A i \in 1..Len(before) : \A k \in FieldSet :
                /\ before[i][k] # "" => after[i][k] = before[i][k]
                /\ Assigns(before[i], ev.text, k) => after[i][k] # ""

\* C18, amended: the merge never changes a field that was non-empty before
\* the call; a field that was empty either stays empty or takes the update's
\* value stripped of blanks, which is empty when the update's value is blank;
\* {part: X, make: Y} merged into {part: X} gives {part: X, make: Y}.
C18_MergeKeepsNonEmptyFields ==
    ev.op = "_apply_to_queue"
    => LET before == ev.info.queue
           after == conversations["c1"].request_queue
       IN  /\ Len(after) = Len(before)
           /\ \A i \in 1..Len(before) : \A k \in FieldSet :
                /\ before[i][k] # "" => after[i][k] = before[i][k]
                /\ before[i][k] = "" => after[i][k] \in {"", Strip(ev.text[k])}
                /\ after[i][k] = "" => before[i][k] = ""
           /\ before = <<Item("alternador", "", "", "")>>
              /\ ev.text = Item("alternador", "toyota", "", "")
              => after = <<Item("alternador", "toyota", "", "")>>

\* C18 happens: a padded value filled an empty field of an item whose part
\* was already set and was offered another value.
C18_Witness ==
    /\ ev.op = "_apply_to_queue"
    /\ ev.info.queue = <<Item("alternador", "", "", "")>>
    /\ ev.text = Item(PADDED, PADDED, "", "")
    /\ conversations["c1"].request_queue = <<Item("alternador", "nuevo", "", "")>>

\* The first result of a supplier in a list of results.
FirstOf(results, name) ==
    results[CHOOSE i \in 1..Len(results) :
                /\ results[i].supplier_name = name
                /\ \A j \in 1..(i - 1) : results[j].supplier_name # name]

\* C19: for a non-empty list of results build_options returns between one
\* and three options, no two of the same supplier, and each option is made
\* from the first result of its supplier in the list.
C19_OptionsAreFewAndDistinct ==
    ev.op = "build_options" /\ ev.text # <<>>
    => LET options == ev.info.options IN
       /\ Len(options) \in 1..3
       /\ \A i, j \in 1..Len(options) :
            i # j => options[i].supplier_name # options[j].supplier_name
       /\ \A i \in 1..Len(options) :
            /\ \E k \in 1..Len(ev.text) :
                    ev.text[k].supplier_name = options[i].supplier_name
            /\ LET first == FirstOf(ev.text, options[i].supplier_name)
               IN  /\ options[i].cost = CostOr(first, 0)
                   /\ options[i].lead_time = first.lead_time
                   /\ options[i].source = first.source

\* C19 happens: four results of three suppliers, one supplier twice with
\* different costs, gave three options.
C19_Witness ==
    /\ ev.op = "build_options"
    /\ Len(ev.text) = MaxResults
    /\ \E i, j \in 1..Len(ev.text) :
            /\ i < j
            /\ ev.text[i].supplier_name = ev.text[j].supplier_name
            /\ CostOr(ev.text[j], 0) < CostOr(ev.text[i], 0)
    /\ Len(ev.info.options) = 3

\* C20: the first option (the cheapest) has a cost field that is <= the cost
\* field of every other returned option and <= the cost (total_cost, else
\* price) of every result that is left after deduplication and has one.
C20_CheapestIsCheapest ==
    ev.op = "build_options" /\ ev.text # <<>>
    => LET options == ev.info.options
           unique_results == Dedup(ev.text, {})
       IN  /\ \A i \in 1..Len(options) : options[1].cost <= options[i].cost
           /\ \A k \in 1..Len(unique_results) :
                CostOr(unique_results[k], 0) # 0
                => options[1].cost <= CostOr(unique_results[k], 0)

\* C21: source_parts returns its results in ascending order of cost, and a
\* result without a cost comes after every result that has one, however
\* large the costs are.
C21_UnpricedResultsSortLast ==
    ev.op = "source_parts"
    => LET results == ev.info.results IN
       \A i, j \in 1..Len(results) :
            i < j =>
              /\ CostOr(results[i], 0) # 0 /\ CostOr(results[j], 0) # 0
                    => CostOr(results[i], 0) <= CostOr(results[j], 0)
              /\ CostOr(results[i], 0) = 0 => CostOr(results[j], 0) = 0

\* C22: every option of build_options with cost c (in cents) has
\* suggested_price = c * 1.35 rounded to the cent (no cent is nearer) and
\* margin = suggested_price - c.
C22_PriceAndMarginOfEveryOption ==
    ev.op = "build_options"
    => \A i \in 1..Len(ev.info.options) :
         LET o == ev.info.options[i]
             exact == o.cost * (100 + DEFAULT_MARKUP_PCT)   \* hundredths of a cent
         IN  /\ 100 * o.suggested_price - exact <= 50
             /\ exact - 100 * o.suggested_price < 50
             /\ o.margin = o.suggested_price - o.cost

\* C22 happens: an option whose price had to be rounded up (89.99 * 1.35 =
\* 121.4865) beside one whose price is exact.
C22_Witness ==
    /\ ev.op = "build_options"
    /\ \E i, j \in 1..Len(ev.info.options) :
         /\ ev.info.options[i].cost = 8999
         /\ ev.info.options[i].suggested_price = 12149
         /\ ev.info.options[i].margin = 3150
         /\ ev.info.options[j].cost = 12500
         /\ ev.info.options[j].suggested_price = 16875

\* C23: of two messages of one customer the second changes the state only
\* after the handling of the first has finished: a thread takes a step only
\* when the threads of the customer's earlier messages are done, and the
\* webhook handles a message itself only when all of them are; so an
\* affirmative that follows a field-completing message finds confirming set.
C23_MessagesOfACustomerInOrder ==
    /\ ev.op \in {"thread_get", "thread_store", "thread_body"}
       => \A u \in threads :
            u.number = ev.number /\ u.id < ev.info.id => u.pc = "done"
    /\ ev.op = "webhook_text" /\ ev.info.route # "request"
       => \A u \in threads : u.number = ev.number => u.pc = "done"
    /\ ev.op = "webhook_text" /\ ev.text = T_SI
       /\ (\E u \in threads : u.number = ev.number /\ u.message = T_VEH)
       => ev.info.route = "confirming"

\* C24: when the handlers of a customer have all finished, one Conversation
\* is stored for the customer and every item a handler enqueued is in its
\* queue (or in the queue handed to a sourcing run).
C24_NoEnqueuedItemIsLost ==
    (threads # {} /\ \A t \in threads : t.pc = "done")
    => \A t \in threads : \A k \in 1..Len(t.enqueued) :
          \/ /\ t.number \in DOMAIN conversations
             /\ \E i \in 1..Len(conversations[t.number].request_queue) :
                    conversations[t.number].request_queue[i].part = t.enqueued[k].part
          \/ \E id \in DOMAIN runs : \E i \in 1..Len(runs[id].queue) :
                    runs[id].queue[i].part = t.enqueued[k].part

\* C25: a Timer sends at most once and never after it was cancelled: a Timer
\* whose callback had not started when cancel_followup returned, with no
\* schedule call made since, does not send its message.
C25_NoReminderAfterCancel ==
    \A t \in threads :
        t.kind = "timer" /\ t.forbidden => t.pc = "waiting"

\* C27: the reminder a run scheduled at its start is sent at most once, and
\* never after the run passed its cancel step: a Timer whose callback had not
\* started when its run's cancel_followup returned does not send its message.
C27_NoReminderAfterRunCancelStep ==
    /\ \A t \in threads :
          t.kind = "timer" /\ t.quiet => t.pc = "waiting"
    /\ ev.op = "timer_sends" => Len(ev.out) = 1

\* C28: a PendingSelection does not outlive the conversation: after a sweep
\* of _cleanup_loop no purged customer has a PendingSelection, and after
\* _close_conversation answered a goodbye of customer c, c has none.
C28_SelectionDoesNotOutliveConversation ==
    /\ ev.op = "cleanup"
       => \A n \in ev.info.expired : n \notin DOMAIN pending_selections
    /\ (/\ ev.op = "process_customer_request"
        /\ \/ Sent(ev.out, ev.number, "GOODBYE_MID_FLOW")
           \/ Sent(ev.out, ev.number, "GOODBYE_COMPLETED"))
       => ev.number \notin DOMAIN pending_selections

\* C30: a customer whose live-session flag is set has no Conversation in
\* the conversations map.
C30_NoConversationInLiveSession ==
    \A c \in live_sessions : c \notin DOMAIN conversations

\* C29: for every customer whose live-session flag is set the owner has a
\* 'fin' message (as a reply to some message the owner received, or as no
\* reply) after which the flag is cleared, the customer was sent the closing
\* message and the customer's next message is no longer routed to the live
\* session.
C29_OwnerCanEndEveryLiveSession ==
    \A c \in live_sessions :
        \E replied_to \in {NoReply} \cup {Wamid(n) : n \in 1..(next_sid - 1)}
                           \cup {ApprovalWamid(b) : b \in owner_inbox} :
            LET s == OwnerHandler(Store, O_FIN, replied_to)
            IN  /\ s.ok
                /\ c \notin s.live_sessions
                /\ Sent(s.out, c, "session_closed")
                /\ Route(s, c) # "live_session"

\* C26: every found item dispatched for approval has a long-wait alert that
\* fires unless the owner sets its prices in time: when a run has dispatched
\* its approvals a long-wait alert is scheduled for each of its found items;
\* and once the quote of a customer's item is sent no alert is scheduled
\* for it any more.
C26_EveryDispatchedItemHasAnAlert ==
    /\ ev.op = "run_finish"
       => \A k \in 1..Len(ev.info.found) :
            /\ ev.number \in DOMAIN _long_timers
            /\ _long_timers[ev.number] = ev.info.found[k].req
    /\ ev.op = "owner_text"
       => \A i \in 1..Len(ev.out) :
            ev.out[i].kind = "quote" => ev.out[i].to \notin DOMAIN _long_timers

\* C31: when a message of a customer has been handled by
\* process_customer_request or by the confirming step and the customer has a
\* Conversation afterwards, its last_seen is the current time.
C31_LastSeenIsNowAfterEveryMessage ==
    (/\ \/ ev.op = "process_customer_request"
        \/ ev.op = "webhook_text" /\ ev.info.route = "confirming"
     /\ ev.number \in DOMAIN conversations)
    => conversations[ev.number].last_seen = now

\* C32: a sweep of _cleanup_loop removes exactly the conversations idle for
\* more than CONVERSATION_TTL, leaves every other conversation as it was, and
\* raises the abandoned-confirmation alert for exactly the removed
\* conversations that were confirming.
C32_SweepRemovesExactlyTheStale ==
    [][ev'.op = "cleanup"
       => LET stale == {n \in DOMAIN conversations :
                           now - conversations[n].last_seen > CONVERSATION_TTL}
          IN  /\ DOMAIN conversations' = DOMAIN conversations \ stale
              /\ \A n \in DOMAIN conversations' : conversations'[n] = conversations[n]
              /\ ev'.info.alerted = {n \in stale : conversations[n].confirming}]_vars

\* A sweep that removed a confirming conversation with an alert and kept a
\* conversation that was not stale.
C32_Witness ==
    /\ ev.op = "cleanup"
    /\ ev.info.alerted # {}
    /\ conversations # <<>>

\* C33: a merge of extracted fields changes the first incomplete item of the
\* queue only; every other item is the same after the call as before it.
C33_MergeChangesFirstIncompleteOnly ==
    ev.op = "_apply_to_queue"
    => LET before == ev.info.queue
           after == conversations["c1"].request_queue
       IN  /\ Len(after) = Len(before)
           /\ \A i \in 1..Len(before) :
                i # FirstIncomplete(before) => after[i] = before[i]

\* C34: when the confirming step recognised a correction and re-sent the
\* summary, the first item of the stored queue carries the corrected value of
\* every field the correction names.
C34_CorrectionReachesTheQueue ==
    (/\ ev.op = "webhook_text"
     /\ ev.info.route = "confirming"
     /\ Sent(ev.out, ev.number, "queue_confirmation"))
    => LET queue == conversations[ev.number].request_queue
       IN  \E correction \in parse_correction(ev.text, NoUpdate) \ {NoUpdate} :
             \A k \in FieldSet :
               correction[k] # "" => queue # <<>> /\ queue[1][k] = correction[k]

\* The variables the handlers keep, without the record of the last step.
handler_state ==
    << conversations, pending_approvals, pending_selections, approval_message_map,
       escalation_message_map, live_sessions, pending_live_offers, _timers, _long_timers,
       threads, runs, owner_inbox, next_sid, n_runs, now >>

\* C35: when a customer with a PendingSelection sends a reply that resolves
\* to no option, or a digit beyond the number of options, the handler sends
\* the choose-a-number prompt and nothing else, and leaves pending_selections,
\* conversations, pending_approvals and both timer tables unchanged.
C35_UnresolvedReplyChangesNothing ==
    /\ [](/\ ev.op = "webhook_text"
          /\ ev.info.route = "selection"
          /\ \/ ev.info.choice = NoChoice
             \/ /\ ev.text = T_DOS
                /\ ev.number \in DOMAIN pending_selections
                /\ Len(pending_selections[ev.number].options) < 2
          => /\ Len(ev.out) = 1
             /\ Sent(ev.out, ev.number, "choose_option"))
    /\ [][(/\ ev'.op = "webhook_text"
           /\ ev'.info.route = "selection"
           /\ \/ ev'.info.choice = NoChoice
              \/ /\ ev'.text = T_DOS
                 /\ Len(pending_selections[ev'.number].options) < 2)
          => /\ pending_selections' = pending_selections
             /\ conversations' = conversations
             /\ pending_approvals' = pending_approvals
             /\ _timers' = _timers
             /\ _long_timers' = _long_timers]_handler_state

\* The customer answered "2" to a quote with a single option and was asked
\* to choose again.
C35_Witness ==
    /\ ev.op = "webhook_text"
    /\ ev.info.route = "selection"
    /\ ev.text = T_DOS
    /\ ev.number \in DOMAIN pending_selections
    /\ Len(pending_selections[ev.number].options) = 1
    /\ Sent(ev.out, ev.number, "choose_option")

\* What the program holds for customer b.
CustomerState(b) ==
    << IF b \in DOMAIN conversations THEN <<conversations[b]>> ELSE <<>>,
       IF b \in OKeys(pending_approvals) THEN <<OGet(pending_approvals, b)>> ELSE <<>>,
       IF b \in DOMAIN pending_selections THEN <<pending_selections[b]>> ELSE <<>>,
       b \in live_sessions,
       b \in _timers,
       IF b \in DOMAIN _long_timers THEN <<_long_timers[b]>> ELSE <<>> >>

\* C36: a step taken for customer a (a message or image of a, a
\* process_customer_request thread of a, a step of a sourcing run of a) leaves
\* the Conversation, PendingApproval, PendingSelection, live-session flag
\* and timers of every other customer as they were.
C36_CustomersDoNotInterfere ==
    [][(/\ ev'.number \in Customers
        /\ ev'.op \in {"webhook_text", "webhook_image", "process_customer_request",
                       "run_start", "source_parts", "run_finish"})
       => \A b \in Customers \ {ev'.number} : CustomerState(b)' = CustomerState(b)]_vars

\* A sourcing run of c1 finished while c2 had a Conversation and a reminder
\* scheduled.
C36_Witness ==
    /\ ev.op = "run_finish"
    /\ ev.number = "c1"
    /\ "c2" \in DOMAIN conversations
    /\ "c2" \in _timers

\* C37: every stored conversation with confirming = TRUE has a non-empty
\* request_queue whose items are all complete.
C37_ConfirmingQueueIsComplete ==
    \A n \in DOMAIN conversations :
        conversations[n].confirming
        => /\ conversations[n].request_queue # <<>>
           /\ \A i \in 1..Len(conversations[n].request_queue) :
                _req_complete(conversations[n].request_queue[i])

\* C38: a stored conversation with confirming = TRUE or a non-empty
\* request_queue has state ACTIVE.
C38_OnlyActiveConversationsBuildAQueue ==
    \A n \in DOMAIN conversations :
        (conversations[n].confirming \/ conversations[n].request_queue # <<>>)
        => conversations[n].state = ConversationState.ACTIVE

\* C39: a long-wait timer is scheduled for a customer only while that
\* customer has a PendingApproval, so no alert fires for a customer whose
\* approval the owner cancelled.
C39_LongWaitTimerOnlyWithApproval ==
    \A c \in DOMAIN _long_timers : c \in OKeys(pending_approvals)

\* C40: every entry of approval_message_map refers to a customer that has a
\* PendingApproval.
C40_ApprovalMapRefersToPendingApprovals ==
    \A k \in DOMAIN approval_message_map :
        approval_message_map[k] \in OKeys(pending_approvals)

====
